---- MODULE Spec2Model ----
(***************************************************************************)
(* A model of demisto_sdk/validation/file_validator.py: the FilesValidator *)
(* orchestrator.  It classifies the lines of `git diff --name-status`      *)
(* (get_modified_files), reconciles the branch, working-tree and tag diffs *)
(* (get_modified_and_added_files), validates the modified, added and       *)
(* old-format files into the single verdict _is_valid, and chooses between *)
(* the changeset and the full-repository sweep (is_valid_structure).       *)
(*                                                                         *)
(* Strings the code takes apart (branch names, refs) are sequences of      *)
(* characters.  A path is a record of its parts, so that startswith,       *)
(* endswith, os.path.splitext and the path patterns are computed on the    *)
(* parts:  pre ++ root ++ "/" ++ [pkg ++ "/"] ++ prefix ++ base ++ suffix  *)
(* ++ "." ++ ext.  A line of a diff is the tuple of its tokens, as         *)
(* f.split() gives it.                                                     *)
(***************************************************************************)
EXTENDS Naturals, Sequences, FiniteSets, TLC

VARIABLES
    branch_name,         \* self.branch_name
    prev_ver,            \* self.prev_ver
    is_circle,           \* self.is_circle
    is_backward_check,   \* self.is_backward_check
    validate_conf_json,  \* self.validate_conf_json (conf_json_validator exists iff TRUE)
    validate_id_set,     \* self.validate_id_set (id_set_validator exists iff TRUE)
    _is_valid,           \* self._is_valid: the verdict
    fs,                  \* the content of the yml files get_yaml reads: path -> document
    stack,               \* the active calls, innermost first: records [fn, pc]
    gm,                  \* locals of get_modified_and_added_files
    ret,                 \* the value the last get_modified_and_added_files call returned
    cf,                  \* locals of validate_committed_files
    pv,                  \* locals of validate_against_previous_version
    lp,                  \* locals of the running file loop (modified, added, old format)
    sweep,               \* validate_all_files: the files of the tree still to visit
    files_string,        \* the argument of the last direct get_modified_files call
    classified,          \* the four sets that call returned
    hist                 \* what the running top-level call has done so far (observation only)

vars == <<branch_name, prev_ver, is_circle, is_backward_check, validate_conf_json,
          validate_id_set, _is_valid, fs, stack, gm, ret, cf, pv, lp, sweep,
          files_string, classified, hist>>

(***************************************************************************)
(* Strings                                                                 *)
(***************************************************************************)
master == <<"m", "a", "s", "t", "e", "r">>
origin_master == <<"o", "r", "i", "g", "i", "n", "/">> \o master

startswith(s, p) == Len(s) >= Len(p) /\ SubSeq(s, 1, Len(p)) = p

\* Python's `p in s` on strings: p is a substring of s.
contains(s, p) ==
    \E i \in 1..(Len(s) + 1) :
        i + Len(p) - 1 <= Len(s) /\ SubSeq(s, i, i + Len(p) - 1) = p

(***************************************************************************)
(* Paths                                                                   *)
(***************************************************************************)
Path(pre, root, pkg, prefix, base, suffix, ext) ==
    [pre |-> pre, root |-> root, pkg |-> pkg, prefix |-> prefix,
     base |-> base, suffix |-> suffix, ext |-> ext]

\* A rename entry of the modified set: the Python tuple (old_path, new_path).
Pair(old, new) == [old |-> old, new |-> new]

\* isinstance(x, tuple)
isinstance_tuple(x) == "old" \in DOMAIN x

\* file_path.startswith('.')
startswith_dot(p) == p.pre = "./" \/ p.root \in {".circleci", ".github"}

\* file_path.endswith('_test.py')
endswith_test_py(p) == p.suffix = "_test" /\ p.ext = "py"

\* A code file left under its own path.
splitext_same(p) == p

\* os.path.splitext(file_path)[0] + '.yml'
splitext_yml(p) == [p EXCEPT !.ext = "yml"]

(***************************************************************************)
(* The path patterns of common/constants.py, on the parts of a path.       *)
(* Every pattern may start with "./" and names a content directory.        *)
(***************************************************************************)
INTEGRATION_REGEX(p) ==
    p.root = "Integrations" /\ p.pkg = "" /\ p.prefix = "integration-" /\ p.ext = "yml"
INTEGRATION_YML_REGEX(p) == p.root = "Integrations" /\ p.pkg # "" /\ p.ext = "yml"
INTEGRATION_PY_REGEX(p) == p.root = "Integrations" /\ p.pkg # "" /\ p.ext = "py"
INTEGRATION_JS_REGEX(p) == p.root = "Integrations" /\ p.pkg # "" /\ p.ext = "js"
BETA_INTEGRATION_REGEX(p) ==
    p.root = "Beta_Integrations" /\ p.pkg = "" /\ p.prefix = "integration-" /\ p.ext = "yml"
BETA_INTEGRATION_YML_REGEX(p) ==
    p.root = "Beta_Integrations" /\ p.pkg # "" /\ p.ext = "yml"
SCRIPT_REGEX(p) ==
    p.root = "Scripts" /\ p.pkg = "" /\ p.prefix = "script-" /\ p.ext = "yml"
SCRIPT_YML_REGEX(p) == p.root = "Scripts" /\ p.pkg # "" /\ p.ext = "yml"
SCRIPT_PY_REGEX(p) == p.root = "Scripts" /\ p.pkg # "" /\ p.ext = "py"
SCRIPT_JS_REGEX(p) == p.root = "Scripts" /\ p.pkg # "" /\ p.ext = "js"
IMAGE_REGEX(p) == p.root = "Integrations" /\ p.suffix = "_image" /\ p.ext = "png"
INCIDENT_FIELD_REGEX(p) ==
    p.root = "IncidentFields" /\ p.prefix = "incidentfield-" /\ p.ext = "json"
PLAYBOOK_REGEX(p) == p.root = "Playbooks" /\ p.prefix = "playbook-" /\ p.ext = "yml"
TEST_PLAYBOOK_REGEX(p) ==
    p.root = "TestPlaybooks" /\ p.prefix = "playbook-" /\ p.ext = "yml"
SCHEMA_REGEX(p) == p.root = "Tests/schemas" /\ p.ext = "yml"

\* checked_type(file_path, CODE_FILES_REGEX)
CODE_FILES_REGEX(p) ==
    \/ INTEGRATION_JS_REGEX(p) \/ INTEGRATION_PY_REGEX(p)
    \/ SCRIPT_PY_REGEX(p) \/ SCRIPT_JS_REGEX(p)

\* checked_type(file_path, OLD_YML_FORMAT_FILE)
OLD_YML_FORMAT_FILE(p) == INTEGRATION_REGEX(p) \/ SCRIPT_REGEX(p)

\* checked_type(file_path): the default list CHECKED_TYPES_REGEXES
checked_type(p) ==
    \/ PLAYBOOK_REGEX(p) \/ TEST_PLAYBOOK_REGEX(p)
    \/ INTEGRATION_REGEX(p) \/ INTEGRATION_YML_REGEX(p)
    \/ BETA_INTEGRATION_REGEX(p) \/ BETA_INTEGRATION_YML_REGEX(p)
    \/ SCRIPT_REGEX(p) \/ SCRIPT_YML_REGEX(p)
    \/ IMAGE_REGEX(p) \/ INCIDENT_FIELD_REGEX(p)
    \/ CODE_FILES_REGEX(p)

\* file_status.lower()
lower(status) ==
    CASE status \in {"M", "m"} -> "m"
      [] status \in {"A", "a"} -> "a"
      [] status \in {"D", "d"} -> "d"
      [] status \in {"R100", "r100"} -> "r100"
      [] status \in {"R", "r"} -> "r"
      [] status \in {"T", "t"} -> "t"
      [] OTHER -> status

\* s.startswith('r'), for a lowered status
startswith_r(s) == s \in {"r", "r100"}

KNOWN_FILE_STATUSES == {"a", "m", "d", "r", "r100"}

\* The top-level directories that hold packages (one directory per script or integration).
PACKAGE_SUPPORTING_DIRECTORIES == {"Integrations", "Scripts", "Beta_Integrations"}

(***************************************************************************)
(* get_yaml: the document of a yml file, a record of the keys it has.      *)
(***************************************************************************)
get(doc, key, default) == IF key \in DOMAIN doc THEN doc[key] ELSE default

\* A document with no key.
EmptyDoc == <<>>

get_yaml(yml, f) == IF f \in DOMAIN yml THEN yml[f] ELSE EmptyDoc

_is_py_script_or_integration(yml, file_path) ==
    LET file_yml == get_yaml(yml, file_path) IN
    IF INTEGRATION_REGEX(file_path)
    THEN get(get(file_yml, "script", EmptyDoc), "type", "javascript") = "python"
    ELSE IF SCRIPT_REGEX(file_path)
         THEN get(file_yml, "type", "javascript") = "python"
         ELSE FALSE

(***************************************************************************)
(* filter_packagify_changes (common/tools.py): a file removed from and a   *)
(* file added to a package directory under the same name are one file      *)
(* moved into a package, recorded as the modified pair (removed, added);   *)
(* then no path stays in added that is also in modified.  The name key of  *)
(* a file is the base of its file name.                                    *)
(***************************************************************************)
in_package_dir(p) == p.pre = "" /\ p.root \in PACKAGE_SUPPORTING_DIRECTORIES

uniq_identifier(p) == p.base

new_path_of(entry) == IF isinstance_tuple(entry) THEN entry.new ELSE entry

filter_packagify_changes(modified_files, added_files, removed_files) ==
    LET moved_to(a) == {r \in removed_files :
                            in_package_dir(r) /\ uniq_identifier(r) = uniq_identifier(a)}
        moved == {a \in added_files : in_package_dir(a) /\ moved_to(a) # {}}
        source(a) == CHOOSE r \in moved_to(a) : TRUE
        modified == modified_files \cup {Pair(source(a), a) : a \in moved}
    IN  [modified |-> modified,
         added |-> (added_files \ moved) \ {new_path_of(e) : e \in modified},
         deleted |-> removed_files \ {source(a) : a \in moved}]

(***************************************************************************)
(* get_modified_files: one line of the diff, then the whole diff.          *)
(***************************************************************************)
NoFiles == [modified |-> {}, added |-> {}, deleted |-> {}, old_format |-> {}]

\* A rename always entered as the pair.
renamed_pair(file_path, file_data) == Pair(file_data[2], file_data[3])

\* Lines 117-121: the entry of a renamed file, the yml of a code file or the pair.
renamed_entry(file_path, file_data) ==
    IF CODE_FILES_REGEX(file_data[3])
    THEN file_path
    ELSE Pair(file_data[2], file_data[3])

\* The old-format test without the test of the status.
is_old_format_any_status(yml, file_status, file_path) ==
    OLD_YML_FORMAT_FILE(file_path) /\ _is_py_script_or_integration(yml, file_path)

\* Lines 107-108: the test that sends a file to the old-format set.
is_old_format(yml, file_status, file_path) ==
    /\ lower(file_status) \in {"m", "a", "r"}
    /\ OLD_YML_FORMAT_FILE(file_path)
    /\ _is_py_script_or_integration(yml, file_path)

\* Lines 107-131: the cascade that files file_path under file_status.
file_under(acc, yml, file_status, file_path, file_data) ==
    IF is_old_format(yml, file_status, file_path)
    THEN [acc EXCEPT !.old_format = @ \cup {file_path}]
    ELSE IF lower(file_status) = "m" /\ checked_type(file_path) /\ ~startswith_dot(file_path)
    THEN [acc EXCEPT !.modified = @ \cup {file_path}]
    ELSE IF lower(file_status) = "a" /\ checked_type(file_path) /\ ~startswith_dot(file_path)
    THEN [acc EXCEPT !.added = @ \cup {file_path}]
    ELSE IF lower(file_status) = "d" /\ checked_type(file_path) /\ ~startswith_dot(file_path)
    THEN [acc EXCEPT !.deleted = @ \cup {file_path}]
    ELSE IF startswith_r(lower(file_status)) /\ checked_type(file_path)
    THEN [acc EXCEPT !.modified = @ \cup {renamed_entry(file_path, file_data)}]
    ELSE IF SCHEMA_REGEX(file_path)
    THEN [acc EXCEPT !.modified = @ \cup {file_path}]
    ELSE acc   \* an unknown status or an ignored path: printed only

\* Lines 89-105: the status and the path of a line, a code file taken to its yml.
classify_line(acc, yml, file_data) ==
    IF file_data = <<>> THEN acc
    ELSE LET renamed == startswith_r(lower(file_data[1]))
             file_status == IF renamed THEN "r" ELSE file_data[1]
             file_path == IF renamed THEN file_data[3] ELSE file_data[2]
         IN  IF /\ CODE_FILES_REGEX(file_path)
                /\ lower(file_status) # "d"
                /\ ~endswith_test_py(file_path)
             THEN file_under(acc, yml, file_status, splitext_yml(file_path), file_data)
             ELSE IF file_path.ext \in {"js", "py"}
                  THEN acc
                  ELSE file_under(acc, yml, file_status, file_path, file_data)

RECURSIVE classify_lines(_, _, _)
classify_lines(acc, yml, all_files) ==
    IF all_files = <<>> THEN acc
    ELSE classify_lines(classify_line(acc, yml, Head(all_files)), yml, Tail(all_files))

get_modified_files(yml, diff) ==
    LET acc == classify_lines(NoFiles, yml, diff)
        f == filter_packagify_changes(acc.modified, acc.added, acc.deleted)
    IN  [modified |-> f.modified, added |-> f.added, deleted |-> f.deleted,
         old_format |-> acc.old_format]

(***************************************************************************)
(* The files and the diffs of the model.                                   *)
(***************************************************************************)
IntYml == Path("", "Integrations", "Foo", "", "Foo", "", "yml")
IntPy == Path("", "Integrations", "Foo", "", "Foo", "", "py")
IntTestPy == Path("", "Integrations", "Foo", "", "Foo", "_test", "py")
OldInt == Path("", "Integrations", "", "integration-", "Bar", "", "yml")
OldScr == Path("", "Scripts", "", "script-", "Baz", "", "yml")
ScrYml == Path("", "Scripts", "Baz", "", "Baz", "", "yml")
Schema == Path("", "Tests/schemas", "", "", "integration", "", "yml")
Playbook == Path("", "Playbooks", "", "playbook-", "P", "", "yml")
PlaybookOld == Path("", "Playbooks", "", "playbook-", "Q", "", "yml")
TestPb == Path("", "TestPlaybooks", "", "playbook-", "T", "", "yml")
IncField == Path("", "IncidentFields", "", "incidentfield-", "F", "", "json")
Readme == Path("", "Docs", "", "", "README", "", "md")
StrayPy == Path("", "Utils", "", "", "tool", "", "py")
Hidden == Path("", ".circleci", "", "", "config", "", "yml")
DotOldInt == Path("./", "Integrations", "", "integration-", "Bar", "", "yml")
DotIntYml == Path("./", "Integrations", "Foo", "", "Foo", "", "yml")
IntPyOld == Path("", "Integrations", "Old", "", "Old", "", "py")
StrayYml == Path("", "Misc", "", "", "unified", "", "yml")
DotIntPy == Path("./", "Integrations", "Foo", "", "Foo", "", "py")

\* The documents a unified yml file may hold: the type key sits under script for an
\* integration and at the top for a script.
IntegrationDocs ==
    { [script |-> [type |-> "python"]],
      [script |-> [type |-> "python"], toversion |-> "4.1.0"],
      [script |-> [type |-> "javascript"]],
      [name |-> "Bar"] }
ScriptDocs ==
    { [type |-> "python"],
      [type |-> "python", toversion |-> "4.1.0"],
      [type |-> "javascript"],
      [name |-> "Baz"] }
DocsOf(p) == IF p.root = "Scripts" THEN ScriptDocs ELSE IntegrationDocs

\* The lines `git diff --name-status` may print in the orchestrator's runs.
GitLines ==
    << <<"M", IntYml>>, <<"M", Schema>>, <<"M", OldInt>>,
       <<"R100", PlaybookOld, Playbook>>, <<"D", Playbook>>, <<"A", TestPb>> >>

\* The most lines of one diff in the orchestrator's runs.
MaxDiffLines == 2

\* The paths a line names (a rename names two).
line_paths(file_data) == {file_data[i] : i \in 2..Len(file_data)}

RECURSIVE lines_in_order(_, _)
lines_in_order(table, I) ==
    IF I = {} THEN <<>>
    ELSE LET m == CHOOSE x \in I : \A y \in I : x <= y
         IN  <<table[m]>> \o lines_in_order(table, I \ {m})

\* The subsets of S of at most n elements.
RECURSIVE index_sets(_, _)
index_sets(S, n) ==
    IF n = 0 THEN {{}}
    ELSE LET fewer == index_sets(S, n - 1)
         IN  fewer \cup {J \cup {i} : J \in fewer, i \in S}

\* The outputs of git: at most n lines of the table, in the table's order, no path
\* on two lines, and the empty string split('\n') leaves after the last newline.
Diffs(table, n) ==
    { lines_in_order(table, I) \o << <<>> >> :
        I \in { J \in index_sets(1..Len(table), n) :
                  /\ Cardinality(J) <= n
                  /\ \A i, j \in J :
                        i # j => line_paths(table[i]) \cap line_paths(table[j]) = {} } }

GitDiffs == Diffs(GitLines, MaxDiffLines)

\* The lines of the diffs given to get_modified_files directly.
ClassifyLines ==
    << <<"M", IntYml>>, <<"M", IntPy>>, <<"D", IntYml>>, <<"A", IntTestPy>>,
       <<"M", OldInt>>, <<"M", DotOldInt>>, <<"M", DotIntYml>>,
       <<"R100", PlaybookOld, Playbook>>, <<"R100", IntPyOld, IntPy>>,
       <<"A", TestPb>>, <<"D", Playbook>>, <<"T", IncField>>,
       <<"M", Schema>>, <<"M", Hidden>>, <<"M", StrayPy>>,
       <<"A", ScrYml>>, <<"D", OldScr>>, <<"A", OldScr>>,
       <<"A", IntPy>>, <<"D", IntPy>>, <<"M", DotIntPy>>,
       <<"R100", IntPy, Playbook>>,
       <<"T", OldInt>>, <<"D", OldInt>>, <<"R100", IntYml, OldInt>>,
       <<"R100", IntYml, DotIntYml>> >>

ClassifyDiffs == Diffs(ClassifyLines, MaxDiffLines)

\* The unified yml files of those diffs, and the documents they may hold.
ClassifyYmls ==
    { yml \in [{OldInt, DotOldInt, OldScr} -> IntegrationDocs \cup ScriptDocs] :
        \A p \in DOMAIN yml : yml[p] \in DocsOf(p) }

\* The documents of the files in `paths`, those already read as they were read.
Readings(yml, paths) ==
    { yml @@ new :
        new \in { f \in [paths \ DOMAIN yml -> IntegrationDocs \cup ScriptDocs] :
                    \A p \in DOMAIN f : f[p] \in DocsOf(p) } }

NoYml == [p \in {} |-> <<>>]

(***************************************************************************)
(* The orchestrator: construction                                          *)
(***************************************************************************)
\* `git branch` names the current branch; without git the name stays ''.
BranchNames ==
    { master, <<"1", "9", ".", "5">>, <<"2", "0", ".", "0">>, <<"1", "9", "x">>,
      <<"f", "i", "x">>, <<>> }

\* The prev_ver argument: None, or a ref.
PrevVerArgs == { <<>>, master, origin_master, <<"v", "1">> }

NoLocals == [fn |-> "none"]

NoLoop == [fn |-> "none", all |-> TRUE, failed |-> FALSE, type_failed |-> FALSE]

IdleHist == [call |-> "none", no_error |-> FALSE, args |-> {}, pre |-> TRUE,
             trace |-> <<>>, loop |-> NoLoop, schema |-> FALSE, status |-> "new"]

\* __init__: lines 46-64, the arguments drawn from the given sets.
construct(branches, prev_vers, circle, backward, conf_json, id_set) ==
    /\ branch_name \in branches
    /\ \E arg \in prev_vers : prev_ver = IF arg = <<>> THEN origin_master ELSE arg
    /\ is_circle \in circle
    /\ is_backward_check \in backward
    /\ validate_conf_json \in conf_json
    /\ validate_id_set \in id_set
    /\ _is_valid = TRUE

\* No call is active and no call has been made.
at_rest ==
    /\ stack = <<>>
    /\ gm = NoLocals
    /\ ret = NoLocals
    /\ cf = NoLocals
    /\ pv = NoLocals
    /\ lp = NoLocals
    /\ sweep = 0
    /\ classified = NoFiles
    /\ hist = IdleHist

\* The orchestrator's runs: every branch, ref and conf.json choice, with the defaults
\* is_circle=False, is_backward_check=True and validate_id_set=False.
Init ==
    /\ construct(BranchNames, PrevVerArgs, {FALSE}, {TRUE}, BOOLEAN, {FALSE})
    /\ at_rest
    /\ fs = NoYml
    /\ files_string = <<>>

self == <<branch_name, prev_ver, is_circle, is_backward_check, validate_conf_json,
          validate_id_set>>

(***************************************************************************)
(* Calls and returns                                                       *)
(***************************************************************************)
Frame(fn, pc) == [fn |-> fn, pc |-> pc]

at(fn, pc) == stack # <<>> /\ Head(stack) = Frame(fn, pc)

idle == stack = <<>>

\* The running function moves to pc.
goto(pc) == stack' = <<Frame(Head(stack).fn, pc)>> \o Tail(stack)

\* What the running top-level call has done: calls, returns and raises, in order.
Event(ev, fn) == [ev |-> ev, fn |-> fn]
Called(fn) == Event("call", fn)
Returned(fn) == Event("return", fn)

\* How the last file loop ended: whether it evaluated every file of its set,
\* whether a file of the set failed, and whether the validator of its content type
\* would reject a file of the set.
LoopEnd(fn, all, failed) ==
    [fn |-> fn, all |-> all, failed |-> failed, type_failed |-> lp.type_failed # {}]

\* The running function calls fn and will go on at pc.
call(fn, pc) ==
    /\ stack' = <<Frame(fn, "start"), Frame(Head(stack).fn, pc)>> \o Tail(stack)
    /\ hist' = [hist EXCEPT !.trace = Append(@, Called(fn))]

\* The running function returns: to its caller, or out of the top-level call.
return_loop(end) ==
    /\ stack' = Tail(stack)
    /\ hist' = [hist EXCEPT
                  !.trace = Append(@, Returned(Head(stack).fn)),
                  !.loop = end,
                  !.status = IF Tail(stack) = <<>> THEN "returned" ELSE @]

return == return_loop(hist.loop)

\* A caller of the orchestrator calls one of its methods.
top_call(fn, no_error, args) ==
    /\ idle
    /\ stack' = <<Frame(fn, "start")>>
    /\ hist.status = "new"
    /\ hist' = [call |-> fn, no_error |-> no_error, args |-> args, pre |-> _is_valid,
                trace |-> <<Called(fn)>>, loop |-> NoLoop, schema |-> FALSE,
                status |-> "running"]

(***************************************************************************)
(* get_modified_and_added_files(tag)                                       *)
(***************************************************************************)
GMAF == "get_modified_and_added_files"

\* A reconciliation that takes every modified path of any of the three diffs.
reconcile_modified_union(A, nc, from_tag) ==
    (A.modified \cup from_tag.modified \cup nc.modified) \ nc.deleted

\* Lines 173-181: the branch diff A, the working-tree diff nc and the diff from the tag.
reconcile_modified(A, nc, from_tag) ==
    (A.modified \cup (from_tag.modified \cap nc.modified)) \ nc.deleted

reconcile_added(A, nc, from_tag) ==
    ((A.added \cup (from_tag.added \cap nc.added)) \ nc.modified) \ nc.deleted

reconcile_old_format(A, nc) == A.old_format \cup nc.old_format

\* The three classified diffs of one run: the branch diff A alone in CI mode (line
\* 162), else reconciled with the working-tree diff nc and the diff from the tag.
reconcile(circle, A, nc, from_tag) ==
    IF circle
    THEN [modified_files |-> A.modified, added_files |-> A.added,
          old_format_files |-> A.old_format]
    ELSE [modified_files |-> reconcile_modified(A, nc, from_tag),
          added_files |-> reconcile_added(A, nc, from_tag),
          old_format_files |-> reconcile_old_format(A, nc)]

\* The yml files the diffs of the orchestrator's runs make get_modified_files read,
\* and the documents they may hold.
GitYmls == { yml \in [{OldInt} -> IntegrationDocs] : TRUE }

\* What get_modified_files makes of the diffs git may print, the yml files being yml.
ClassifiedDiffs(yml) == { get_modified_files(yml, diff) : diff \in GitDiffs }

\* Every value get_modified_and_added_files may return.
CollectResults(circle) ==
    UNION { { reconcile(circle, A, nc, from_tag) :
                A \in ClassifiedDiffs(yml), nc \in ClassifiedDiffs(yml),
                from_tag \in ClassifiedDiffs(yml) } : yml \in GitYmls }
CollectResultsCircle == CollectResults(TRUE)
CollectResultsLocal == CollectResults(FALSE)

\* Lines 153-183 as one step: the three diffs are run and classified, and the
\* reconciled sets returned.
gmaf_run ==
    /\ at(GMAF, "start")
    /\ \E r \in (IF is_circle THEN CollectResultsCircle ELSE CollectResultsLocal) :
         ret' = r
    /\ gm' = NoLocals
    /\ return
    /\ UNCHANGED <<self, _is_valid, fs, cf, pv, lp, sweep, files_string, classified>>

\* A comparison that takes the merge base for the tag 'master' alone.
compare_type_of_master(tag) == IF tag = master THEN <<".">> ELSE <<>>

\* Line 152: compare_type = '.' if 'master' in tag else ''
compare_type(tag) == IF contains(tag, master) THEN <<".">> ELSE <<>>

\* Lines 153-156: the revisions `git diff --name-status` is given first,
\* '{tag}..{compare_type}refs/heads/{branch}', as base, dots and head.
branch_diff_command(tag, branch) ==
    [base |-> tag, dots |-> <<".", ".">> \o compare_type(tag), head |-> branch]

\* The lines git may print when get_modified_and_added_files is called directly:
\* a path may be modified or added in one diff and deleted or modified in another.
CollectLines ==
    << <<"M", IntYml>>, <<"D", IntYml>>, <<"A", TestPb>>, <<"M", TestPb>>,
       <<"D", TestPb>>, <<"M", OldInt>>, <<"R100", PlaybookOld, Playbook>>,
       <<"D", Playbook>> >>

CollectDiffs == Diffs(CollectLines, MaxDiffLines)

\* The unified integration of those diffs is a Python one or not.
CollectYmls ==
    { yml \in [{OldInt} -> IntegrationDocs] :
        yml[OldInt] \in {[script |-> [type |-> "python"]], [name |-> "Bar"]} }

ClassifiedCollect(yml) == { get_modified_files(yml, diff) : diff \in CollectDiffs }

\* The same step, the three classified diffs kept in gm for observation; in CI mode
\* the working-tree diff and the diff from the tag are not run (line 162).
gmaf_run_observed ==
    /\ at(GMAF, "start")
    /\ \E yml \in CollectYmls :
         \E A \in ClassifiedCollect(yml),
            nc \in (IF is_circle THEN {NoFiles} ELSE ClassifiedCollect(yml)),
            from_tag \in (IF is_circle THEN {NoFiles} ELSE ClassifiedCollect(yml)) :
            /\ ret' = reconcile(is_circle, A, nc, from_tag)
            /\ gm' = [tag |-> gm.tag, A |-> A, nc |-> nc, from_tag |-> from_tag,
                      command |-> branch_diff_command(gm.tag, branch_name)]
    /\ return
    /\ UNCHANGED <<self, _is_valid, fs, cf, pv, lp, sweep, files_string, classified>>

(***************************************************************************)
(* The file loops: validate_modified_files, validate_added_files and       *)
(* validate_no_old_format.  A loop takes the files of its set in any       *)
(* order.  The validators answer for a file by the set `bad` of the checks *)
(* the file does not pass.                                                 *)
(***************************************************************************)
VMF == "validate_modified_files"
VAF == "validate_added_files"
VNOF == "validate_no_old_format"

Checks == {"structure", "id_set", "used_id", "conf_json", "type", "bc"}

\* The most checks one file fails.
MaxBadChecks == 1

Answers == {bad \in SUBSET Checks : Cardinality(bad) <= MaxBadChecks}

loop_over(files) ==
    [files |-> files, todo |-> files, evaluated |-> {}, failed |-> {}, invalid_files |-> {},
     type_failed |-> {}]

\* The loop ends when no file of the set is left.
loop_done(l) == l.todo = {}

loop_return(fn) ==
    /\ return_loop(LoopEnd(fn, lp.evaluated = lp.files, lp.failed # {}))
    /\ lp' = NoLocals

\* Lines 199-201: a file that is no content entity is skipped.
skipped_modified(file_path) == ~checked_type(file_path)

\* Lines 203-272: whether the checks run on a modified file set the verdict to False.
modified_file_fails(file_path, bad) ==
    \/ "structure" \in bad
    \/ IF validate_id_set
       THEN "id_set" \in bad
       ELSE IF INTEGRATION_REGEX(file_path) \/ INTEGRATION_YML_REGEX(file_path)
       THEN "type" \in bad \/ (is_backward_check /\ "bc" \in bad)
       ELSE IF BETA_INTEGRATION_REGEX(file_path) \/ BETA_INTEGRATION_YML_REGEX(file_path)
       THEN "type" \in bad
       ELSE IF SCRIPT_REGEX(file_path)
       THEN (is_backward_check /\ "bc" \in bad) \/ "type" \in bad
       ELSE IF SCRIPT_YML_REGEX(file_path) \/ SCRIPT_PY_REGEX(file_path)
               \/ SCRIPT_JS_REGEX(file_path)
       THEN is_backward_check /\ "bc" \in bad
       ELSE IF IMAGE_REGEX(file_path)
       THEN "type" \in bad
       ELSE IF INCIDENT_FIELD_REGEX(file_path)
       THEN "type" \in bad \/ (is_backward_check /\ "bc" \in bad)
       ELSE FALSE

\* Line 298: self.conf_json_validator exists only if validate_conf_json (lines 66-67).
added_file_raises(file_path) == TEST_PLAYBOOK_REGEX(file_path) /\ ~validate_conf_json

\* Lines 285-334: whether the checks run on an added file set the verdict to False.
added_file_fails(file_path, bad) ==
    \/ "structure" \in bad
    \/ (validate_id_set /\ ("id_set" \in bad \/ "used_id" \in bad))
    \/ IF TEST_PLAYBOOK_REGEX(file_path)
       THEN "conf_json" \in bad
       ELSE IF INTEGRATION_REGEX(file_path) \/ INTEGRATION_YML_REGEX(file_path)
               \/ IMAGE_REGEX(file_path)
       THEN "type" \in bad
       ELSE IF BETA_INTEGRATION_REGEX(file_path) \/ BETA_INTEGRATION_YML_REGEX(file_path)
       THEN "type" \in bad
       ELSE IF INCIDENT_FIELD_REGEX(file_path)
       THEN "type" \in bad
       ELSE FALSE

\* A verdict that every evaluated file sets to False.
verdict_false(verdict, fails) == FALSE

\* A verdict that is the outcome of the last file alone.
verdict_of_last(verdict, fails) == ~fails

\* self._is_valid after a file: set to False if a check failed, else left.
verdict_after(verdict, fails) == IF fails THEN FALSE ELSE verdict

\* The content types whose validator has a validity check of its own: integration,
\* beta integration, unified script, image and incident field.
has_type_check(file_path) ==
    \/ INTEGRATION_REGEX(file_path) \/ INTEGRATION_YML_REGEX(file_path)
    \/ BETA_INTEGRATION_REGEX(file_path) \/ BETA_INTEGRATION_YML_REGEX(file_path)
    \/ SCRIPT_REGEX(file_path) \/ IMAGE_REGEX(file_path)
    \/ INCIDENT_FIELD_REGEX(file_path)

\* Lines 193-272, one file.
vmf_file ==
    /\ at(VMF, "start")
    /\ ~loop_done(lp)
    /\ \E entry \in lp.todo :
         \E bad \in Answers :
            LET file_path == new_path_of(entry)
                fails == ~skipped_modified(file_path) /\ modified_file_fails(file_path, bad)
            IN  /\ _is_valid' = verdict_after(_is_valid, fails)
                /\ lp' = [lp EXCEPT !.todo = @ \ {entry},
                                    !.evaluated = @ \cup {entry},
                                    !.failed = IF fails THEN @ \cup {entry} ELSE @,
                                    !.type_failed =
                                        IF has_type_check(file_path) /\ "type" \in bad
                                        THEN @ \cup {entry} ELSE @]
    /\ UNCHANGED <<self, fs, stack, gm, ret, cf, pv, sweep, files_string, classified,
                   hist>>

vmf_return ==
    /\ at(VMF, "start")
    /\ loop_done(lp)
    /\ loop_return(Head(stack).fn)
    /\ UNCHANGED <<self, _is_valid, fs, gm, ret, cf, pv, sweep, files_string,
                   classified>>

\* Lines 282-334, one file that raises nothing.
vaf_file ==
    /\ at(VAF, "start")
    /\ ~loop_done(lp)
    /\ \E file_path \in lp.todo :
         /\ ~added_file_raises(file_path)
         /\ \E bad \in Answers :
              LET fails == added_file_fails(file_path, bad) IN
              /\ _is_valid' = verdict_after(_is_valid, fails)
              /\ lp' = [lp EXCEPT !.todo = @ \ {file_path},
                                  !.evaluated = @ \cup {file_path},
                                  !.failed = IF fails THEN @ \cup {file_path} ELSE @]
    /\ UNCHANGED <<self, fs, stack, gm, ret, cf, pv, sweep, files_string, classified,
                   hist>>

\* Lines 285-298, a test playbook without a conf_json_validator: the structure and
\* id-set checks run, then the AttributeError leaves every active call.
vaf_file_raises ==
    /\ at(VAF, "start")
    /\ ~loop_done(lp)
    /\ \E file_path \in lp.todo :
         /\ added_file_raises(file_path)
         /\ \E bad \in Answers :
              LET fails == \/ "structure" \in bad
                           \/ (validate_id_set /\ ("id_set" \in bad \/ "used_id" \in bad))
              IN  _is_valid' = verdict_after(_is_valid, fails)
    /\ stack' = <<>>
    /\ hist' = [hist EXCEPT
                  !.trace = Append(@, Event("raise", VAF)),
                  !.loop = LoopEnd(VAF, FALSE, lp.failed # {}),
                  !.status = "raised"]
    /\ gm' = NoLocals /\ cf' = NoLocals /\ pv' = NoLocals /\ lp' = NoLocals
    /\ UNCHANGED <<self, fs, ret, sweep, files_string, classified>>

vaf_return ==
    /\ at(VAF, "start")
    /\ loop_done(lp)
    /\ loop_return(Head(stack).fn)
    /\ UNCHANGED <<self, _is_valid, fs, gm, ret, cf, pv, sweep, files_string,
                   classified>>

\* A gate that no file fails.
never_invalid(yaml_data) == FALSE

\* Line 345: we only fail on old format if no toversion.
no_toversion(yaml_data) == "toversion" \notin DOMAIN yaml_data

\* Lines 343-346, one file: it is invalid if its document has no toversion key.
vnof_file ==
    /\ at(VNOF, "start")
    /\ ~loop_done(lp)
    /\ \E f \in lp.todo :
         \E yml \in Readings(fs, {f}) :
            LET yaml_data == get_yaml(yml, f) IN
            /\ lp' = [lp EXCEPT !.todo = @ \ {f},
                                !.evaluated = @ \cup {f},
                                !.invalid_files = IF no_toversion(yaml_data)
                                                  THEN @ \cup {f} ELSE @]
            /\ fs' = yml
    /\ UNCHANGED <<self, _is_valid, stack, gm, ret, cf, pv, sweep, files_string,
                   classified, hist>>

\* Lines 347-351.
vnof_return ==
    /\ at(VNOF, "start")
    /\ loop_done(lp)
    /\ _is_valid' = verdict_after(_is_valid, lp.invalid_files # {})
    /\ return_loop(LoopEnd(VNOF, lp.evaluated = lp.files, lp.invalid_files # {}))
    /\ lp' = NoLocals
    /\ fs' = IF Tail(stack) = <<>> THEN fs ELSE NoYml
    /\ UNCHANGED <<self, gm, ret, cf, pv, sweep, files_string, classified>>

(***************************************************************************)
(* validate_all_files: the sweep of the whole tree.  Each file of the tree *)
(* passes or fails is_valid_scheme.                                        *)
(***************************************************************************)
VALL == "validate_all_files"

\* The most files of the tree.
MaxRepoFiles == 2

\* Lines 381-400, one file.
vall_file ==
    /\ at(VALL, "start")
    /\ sweep < MaxRepoFiles
    /\ \E is_valid_scheme \in BOOLEAN :
         _is_valid' = verdict_after(_is_valid, ~is_valid_scheme)
    /\ sweep' = sweep + 1
    /\ UNCHANGED <<self, fs, stack, gm, ret, cf, pv, lp, files_string, classified, hist>>

vall_return ==
    /\ at(VALL, "start")
    /\ sweep' = 0
    /\ return
    /\ UNCHANGED <<self, _is_valid, fs, gm, ret, cf, pv, lp, files_string, classified>>

(***************************************************************************)
(* validate_committed_files                                                *)
(***************************************************************************)
VCF == "validate_committed_files"

\* Line 357: get_modified_and_added_files(), tag defaulted to 'origin/master'.
vcf_collect ==
    /\ at(VCF, "start")
    /\ gm' = [tag |-> origin_master]
    /\ call(GMAF, "decide")
    /\ UNCHANGED <<self, _is_valid, fs, ret, cf, pv, lp, sweep, files_string,
                   classified>>

\* Lines 358-363.
schema_changed(modified_files) ==
    \E f \in modified_files : SCHEMA_REGEX(new_path_of(f))

\* Lines 365-368: the full sweep if a schema changed, else the modified files.
vcf_decide ==
    /\ at(VCF, "decide")
    /\ cf' = [modified_files |-> ret.modified_files, added_files |-> ret.added_files,
              old_format_files |-> ret.old_format_files,
              schema_changed |-> schema_changed(ret.modified_files)]
    /\ stack' = <<Frame(IF schema_changed(ret.modified_files) THEN VALL ELSE VMF, "start"),
                   Frame(VCF, IF schema_changed(ret.modified_files)
                              THEN "return" ELSE "added")>> \o Tail(stack)
    /\ lp' = IF schema_changed(ret.modified_files)
             THEN lp ELSE loop_over(ret.modified_files)
    /\ hist' = [hist EXCEPT
                  !.trace = Append(@, Called(IF schema_changed(ret.modified_files)
                                             THEN VALL ELSE VMF)),
                  !.schema = \E f \in ret.modified_files \cup ret.added_files
                                       \cup ret.old_format_files :
                                SCHEMA_REGEX(new_path_of(f))]
    /\ ret' = NoLocals
    /\ UNCHANGED <<self, _is_valid, fs, gm, pv, sweep, files_string, classified>>

\* The added files are passed over.
vcf_skips_added ==
    /\ at(VCF, "added")
    /\ goto("old_format")
    /\ UNCHANGED <<self, _is_valid, fs, gm, ret, cf, pv, lp, sweep, files_string,
                   classified, hist>>

\* Line 369.
vcf_added ==
    /\ at(VCF, "added")
    /\ call(VAF, "old_format")
    /\ lp' = loop_over(cf.added_files)
    /\ UNCHANGED <<self, _is_valid, fs, gm, ret, cf, pv, sweep, files_string,
                   classified>>

\* Line 370.
vcf_old_format ==
    /\ at(VCF, "old_format")
    /\ call(VNOF, "return")
    /\ lp' = loop_over(cf.old_format_files)
    /\ UNCHANGED <<self, _is_valid, fs, gm, ret, cf, pv, sweep, files_string,
                   classified>>

vcf_return ==
    /\ at(VCF, "return")
    /\ cf' = NoLocals
    /\ return
    /\ UNCHANGED <<self, _is_valid, fs, gm, ret, pv, lp, sweep, files_string,
                   classified>>

(***************************************************************************)
(* validate_against_previous_version(no_error)                             *)
(***************************************************************************)
VAPV == "validate_against_previous_version"

\* The locals at the call; entry is the verdict at the call (observation only).
vapv_locals(no_error) == [no_error |-> no_error, entry |-> _is_valid]

\* Line 432.
vapv_guard(ver) == ver # <<>> /\ ver # master

\* Lines 432-434.
vapv_start ==
    /\ at(VAPV, "start")
    /\ IF vapv_guard(prev_ver)
       THEN gm' = [tag |-> prev_ver] /\ call(GMAF, "validate")
       ELSE gm' = gm /\ goto("return") /\ hist' = hist
    /\ UNCHANGED <<self, _is_valid, fs, ret, cf, pv, lp, sweep, files_string,
                   classified>>

\* Lines 434-436.
vapv_validate ==
    /\ at(VAPV, "validate")
    /\ pv' = [no_error |-> pv.no_error, entry |-> pv.entry,
              modified_files |-> ret.modified_files, prev_self_valid |-> _is_valid]
    /\ call(VMF, "restore")
    /\ lp' = loop_over(ret.modified_files)
    /\ ret' = NoLocals
    /\ UNCHANGED <<self, _is_valid, fs, gm, cf, sweep, files_string, classified>>

\* A pass that restores nothing.
not_restored(no_error, verdict, prev_self_valid) == verdict

\* Lines 437-438.
restored(no_error, verdict, prev_self_valid) ==
    IF no_error THEN prev_self_valid ELSE verdict

vapv_restore ==
    /\ at(VAPV, "restore")
    /\ _is_valid' = restored(pv.no_error, _is_valid, pv.prev_self_valid)
    /\ goto("return")
    /\ UNCHANGED <<self, fs, gm, ret, cf, pv, lp, sweep, files_string, classified,
                   hist>>

vapv_return ==
    /\ at(VAPV, "return")
    /\ pv' = NoLocals
    /\ return
    /\ UNCHANGED <<self, _is_valid, fs, gm, ret, cf, lp, sweep, files_string,
                   classified>>

(***************************************************************************)
(* is_valid_structure                                                      *)
(***************************************************************************)
IVS == "is_valid_structure"

\* Lines 408-410: conf.json is valid or not.
ivs_conf_json ==
    /\ at(IVS, "start")
    /\ IF validate_conf_json
       THEN \E is_valid_conf_json \in BOOLEAN :
               _is_valid' = verdict_after(_is_valid, ~is_valid_conf_json)
       ELSE _is_valid' = _is_valid
    /\ goto("dispatch")
    /\ UNCHANGED <<self, fs, gm, ret, cf, pv, lp, sweep, files_string, classified,
                   hist>>

\* Every branch but master taken for a feature branch.
not_master(name) == name # master

\* Lines 412-413: the branch is neither master nor a release branch.
on_feature_branch(name) ==
    name # master /\ ~startswith(name, <<"1", "9", ".">>)
                  /\ ~startswith(name, <<"2", "0", ".">>)

\* Lines 411-422: the first call of the case the branch is in.
ivs_dispatch ==
    /\ at(IVS, "dispatch")
    /\ IF branch_name # <<>>
       THEN IF on_feature_branch(branch_name)
            THEN call(VCF, "previous") /\ pv' = pv
            ELSE call(VAPV, "all_files") /\ pv' = vapv_locals(TRUE)
       ELSE call(VALL, "return") /\ pv' = pv
    /\ UNCHANGED <<self, _is_valid, fs, gm, ret, cf, lp, sweep, files_string,
                   classified>>

\* Line 416.
ivs_previous ==
    /\ at(IVS, "previous")
    /\ call(VAPV, "return")
    /\ pv' = vapv_locals(TRUE)
    /\ UNCHANGED <<self, _is_valid, fs, gm, ret, cf, lp, sweep, files_string,
                   classified>>

\* Line 420.
ivs_all_files ==
    /\ at(IVS, "all_files")
    /\ call(VALL, "return")
    /\ UNCHANGED <<self, _is_valid, fs, gm, ret, cf, pv, lp, sweep, files_string,
                   classified>>

\* Line 424: return self._is_valid.
ivs_return ==
    /\ at(IVS, "return")
    /\ return
    /\ UNCHANGED <<self, _is_valid, fs, gm, ret, cf, pv, lp, sweep, files_string,
                   classified>>

(***************************************************************************)
(* The callers of the orchestrator                                         *)
(***************************************************************************)
\* The entries a caller passes to the loops: paths, and a rename pair.
ModifiedEntries ==
    { IntYml, OldInt, OldScr, ScrYml, IncField, Playbook, Readme, StrayYml,
      Pair(PlaybookOld, Playbook) }
AddedEntries == { IntYml, TestPb, IncField, Playbook, Readme, StrayYml }
OldFormatEntries == { OldInt, OldScr }

\* The most files of a set a caller passes to a loop.
MaxFiles == 2

UpTo(S, n) == {T \in SUBSET S : Cardinality(T) <= n}

call_is_valid_structure ==
    /\ top_call(IVS, FALSE, {})
    /\ UNCHANGED <<self, _is_valid, fs, gm, ret, cf, pv, lp, sweep, files_string,
                   classified>>

call_validate_committed_files ==
    /\ top_call(VCF, FALSE, {})
    /\ UNCHANGED <<self, _is_valid, fs, gm, ret, cf, pv, lp, sweep, files_string,
                   classified>>

call_validate_against_previous_version ==
    /\ \E no_error \in BOOLEAN :
         top_call(VAPV, no_error, {}) /\ pv' = vapv_locals(no_error)
    /\ UNCHANGED <<self, _is_valid, fs, gm, ret, cf, lp, sweep, files_string,
                   classified>>

call_validate_all_files ==
    /\ top_call(VALL, FALSE, {})
    /\ UNCHANGED <<self, _is_valid, fs, gm, ret, cf, pv, lp, sweep, files_string,
                   classified>>

call_validate_modified_files ==
    /\ \E files \in UpTo(ModifiedEntries, MaxFiles) :
         top_call(VMF, FALSE, files) /\ lp' = loop_over(files)
    /\ UNCHANGED <<self, _is_valid, fs, gm, ret, cf, pv, sweep, files_string,
                   classified>>

call_validate_added_files ==
    /\ \E files \in UpTo(AddedEntries, MaxFiles) :
         top_call(VAF, FALSE, files) /\ lp' = loop_over(files)
    /\ UNCHANGED <<self, _is_valid, fs, gm, ret, cf, pv, sweep, files_string,
                   classified>>

call_validate_no_old_format ==
    /\ \E files \in UpTo(OldFormatEntries, MaxFiles) :
         top_call(VNOF, FALSE, files) /\ lp' = loop_over(files)
    /\ UNCHANGED <<self, _is_valid, fs, gm, ret, cf, pv, sweep, files_string,
                   classified>>

\* The caller has looked at the outcome of its call; the files may change before
\* the next call.
caller_continues ==
    /\ idle
    /\ hist.status \in {"returned", "raised"}
    /\ hist' = IdleHist
    /\ fs' = NoYml
    /\ gm' = NoLocals
    /\ ret' = NoLocals
    /\ UNCHANGED <<self, _is_valid, stack, cf, pv, lp, sweep, files_string, classified>>

call_get_modified_and_added_files ==
    /\ top_call(GMAF, FALSE, {})
    /\ gm' = [tag |-> prev_ver]
    /\ UNCHANGED <<self, _is_valid, fs, ret, cf, pv, lp, sweep, files_string,
                   classified>>

\* get_modified_files(files_string), the yml files being fs: lines 83-139.
GMF == "get_modified_files"

call_get_modified_files ==
    /\ idle
    /\ hist.status = "new"
    /\ classified' = get_modified_files(fs, files_string)
    /\ hist' = [hist EXCEPT !.call = GMF,
                            !.trace = <<Called(GMF), Returned(GMF)>>,
                            !.status = "returned"]
    /\ UNCHANGED <<self, _is_valid, fs, stack, gm, ret, cf, pv, lp, sweep, files_string>>

(***************************************************************************)
(* The specifications                                                      *)
(***************************************************************************)
Next ==
    \/ call_is_valid_structure
    \/ call_validate_committed_files
    \/ caller_continues
    \/ ivs_conf_json \/ ivs_dispatch \/ ivs_previous \/ ivs_all_files \/ ivs_return
    \/ vcf_collect \/ vcf_decide \/ vcf_added \/ vcf_old_format \/ vcf_return
    \/ vapv_start \/ vapv_validate \/ vapv_restore \/ vapv_return
    \/ gmaf_run
    \/ vmf_file \/ vmf_return
    \/ vaf_file \/ vaf_file_raises \/ vaf_return
    \/ vnof_file \/ vnof_return
    \/ vall_file \/ vall_return

Spec == Init /\ [][Next]_vars


\* validate_against_previous_version called directly, with and without no_error, in
\* and out of CI mode, for every prev_ver argument.
InitPreviousVersion ==
    /\ construct({<<"f", "i", "x">>}, PrevVerArgs, BOOLEAN, {TRUE}, {TRUE}, {FALSE})
    /\ at_rest
    /\ fs = NoYml
    /\ files_string = <<>>

NextPreviousVersion ==
    \/ call_validate_against_previous_version
    \/ caller_continues
    \/ vapv_start \/ vapv_validate \/ vapv_restore \/ vapv_return
    \/ gmaf_run
    \/ vmf_file \/ vmf_return

SpecPreviousVersion == InitPreviousVersion /\ [][NextPreviousVersion]_vars

\* The three file loops called directly, in every configuration of the checks.
InitLoops ==
    /\ construct({<<"f", "i", "x">>}, {<<>>}, {FALSE}, BOOLEAN, BOOLEAN, BOOLEAN)
    /\ at_rest
    /\ fs = NoYml
    /\ files_string = <<>>

NextLoops ==
    \/ call_validate_modified_files
    \/ call_validate_added_files
    \/ call_validate_no_old_format
    \/ caller_continues
    \/ vmf_file \/ vmf_return
    \/ vaf_file \/ vaf_file_raises \/ vaf_return
    \/ vnof_file \/ vnof_return

SpecLoops == InitLoops /\ [][NextLoops]_vars

\* get_modified_and_added_files called directly, in and out of CI mode.
InitCollect ==
    /\ construct({<<"f", "i", "x">>}, {<<>>, master, <<"v", "1">>}, BOOLEAN, {TRUE},
                 {TRUE}, {FALSE})
    /\ at_rest
    /\ fs = NoYml
    /\ files_string = <<>>

NextCollect ==
    \/ call_get_modified_and_added_files
    \/ gmaf_run_observed
    \/ caller_continues

SpecCollect == InitCollect /\ [][NextCollect]_vars

\* get_modified_files applied to a diff text, the yml files it reads given.
InitClassify ==
    /\ construct({<<>>}, {<<>>}, {FALSE}, {TRUE}, {TRUE}, {FALSE})
    /\ at_rest
    /\ fs \in ClassifyYmls
    /\ files_string \in ClassifyDiffs

NextClassify == call_get_modified_files

SpecClassify == InitClassify /\ [][NextClassify]_vars


(***************************************************************************)
(* Properties                                                              *)
(***************************************************************************)
\* The top-level call of fn is over: it returned, or an exception left it.
ended(fn) == hist.call = fn /\ hist.status \in {"returned", "raised"}

returned_from(fn) == hist.call = fn /\ hist.status = "returned"

\* The running top-level call has called fn.
called(fn) == \E i \in DOMAIN hist.trace : hist.trace[i] = Called(fn)

\* C1: validate_against_previous_version(no_error=True) leaves the verdict equal to
\* its value at the call, whatever that value was and whether or not modified files
\* of the diff against prev_ver failed.
C1_no_error_keeps_verdict ==
    /\ (at(VAPV, "return") /\ pv.no_error) => _is_valid = pv.entry
    /\ (returned_from(VAPV) /\ hist.no_error) => _is_valid = hist.pre

\* A no_error call that began with a true verdict has returned, a modified file of
\* the diff having failed.
C1_witness ==
    /\ returned_from(VAPV) /\ hist.no_error /\ hist.pre
    /\ hist.loop.fn = VMF /\ hist.loop.failed

\* C2: validate_against_previous_version without no_error, for every prev_ver: the
\* modified files of the diff against prev_ver are validated, and the verdict is
\* false after the call if one of them failed.
C2_failing_file_flips_verdict ==
    (returned_from(VAPV) /\ ~hist.no_error) =>
        /\ called(GMAF) /\ called(VMF)
        /\ hist.loop.failed => _is_valid = FALSE

\* C3: within one is_valid_structure run no step changes the verdict from false to
\* true.
C3_verdict_only_falls ==
    [][hist.call = IVS => ~(_is_valid = FALSE /\ _is_valid' = TRUE)]_vars

\* C3, amended: within one is_valid_structure run the only step that changes the
\* verdict from false to true is the restore of the no_error previous-version pass,
\* which puts back the value saved before that pass validated its files.
C3_verdict_rises_only_by_restore ==
    [][(hist.call = IVS /\ _is_valid = FALSE /\ _is_valid' = TRUE)
          => (at(VAPV, "restore") /\ pv.no_error /\ pv.prev_self_valid = TRUE)]_vars

\* In an is_valid_structure run the previous-version pass has restored a true verdict
\* after a modified file of its diff failed.
C3_witness ==
    /\ hist.call = IVS /\ at(VAPV, "return")
    /\ hist.loop.fn = VMF /\ hist.loop.failed
    /\ _is_valid = TRUE

\* C4: validate_committed_files: if a path of the collected changeset is a schema
\* file, validate_all_files runs and none of validate_modified_files,
\* validate_added_files, validate_no_old_format does; else these three run and
\* validate_all_files does not.
C4_schema_change_escalates ==
    ended(VCF) =>
        IF hist.schema
        THEN called(VALL) /\ ~called(VMF) /\ ~called(VAF) /\ ~called(VNOF)
        ELSE called(VMF) /\ called(VAF) /\ called(VNOF) /\ ~called(VALL)

\* C5: validate_modified_files and validate_added_files evaluate every file of the
\* set they are given, and the verdict is false after the call iff it was false
\* before or a file of the set failed a check.
C5_every_file_is_evaluated ==
    (ended(VMF) \/ ended(VAF)) =>
        /\ hist.loop.all
        /\ _is_valid = (hist.pre /\ ~hist.loop.failed)

\* C6: validate_no_old_format makes the verdict false if a file of the set has no
\* toversion key, and leaves it as it was if every file has one or the set is empty.
C6_old_format_gate ==
    returned_from(VNOF) =>
        _is_valid = IF \E f \in hist.args : "toversion" \notin DOMAIN get_yaml(fs, f)
                    THEN FALSE
                    ELSE hist.pre

\* The gate has returned from two files, one with and one without a toversion key,
\* the verdict having been true.
C6_witness ==
    /\ returned_from(VNOF) /\ hist.pre
    /\ \E f \in hist.args : "toversion" \in DOMAIN get_yaml(fs, f)
    /\ \E f \in hist.args : "toversion" \notin DOMAIN get_yaml(fs, f)

\* C7: outside CI mode no entry of the modified or added set that
\* get_modified_and_added_files returns, plain path or rename pair, is a path the
\* working-tree diff lists as deleted.
C7_deleted_in_working_tree_is_dropped ==
    (returned_from(GMAF) /\ ~is_circle) =>
        \A entry \in ret.modified_files \cup ret.added_files :
            new_path_of(entry) \notin gm.nc.deleted

\* The line of a diff is a rename whose new path is a code file (no test file).
renamed_to_code(file_data) ==
    /\ Len(file_data) = 3
    /\ startswith_r(lower(file_data[1]))
    /\ CODE_FILES_REGEX(file_data[3]) /\ ~endswith_test_py(file_data[3])

\* C8: get_modified_files enters a rename whose new path is a code file as the yml
\* path next to the new path and as nothing else: no pair, no old or new code path;
\* alone in the diff it yields that one modified entry.
C8_rename_to_code_file ==
    returned_from(GMF) =>
        \A i \in DOMAIN files_string :
            LET file_data == files_string[i] IN
            renamed_to_code(file_data) =>
                /\ splitext_yml(file_data[3]) \in classified.modified
                /\ file_data[2] \notin classified.modified
                /\ file_data[3] \notin classified.modified
                /\ \A entry \in classified.modified :
                      isinstance_tuple(entry) =>
                          entry.old # file_data[2] /\ entry.new # file_data[3]
                /\ Len(files_string) = 2 =>
                      classified = [NoFiles EXCEPT
                                      !.modified = {splitext_yml(file_data[3])}]

\* get_modified_files has classified the diff of one rename to a code file.
C8_witness ==
    /\ returned_from(GMF)
    /\ files_string = << <<"R100", IntPyOld, IntPy>>, <<>> >>
    /\ classified.modified = {IntYml}

\* C9: the four sets one get_modified_files call returns are pairwise disjoint.
C9_sets_are_disjoint ==
    returned_from(GMF) =>
        LET modified == {new_path_of(entry) : entry \in classified.modified} IN
        /\ modified \cap classified.added = {}
        /\ modified \cap classified.deleted = {}
        /\ modified \cap classified.old_format = {}
        /\ classified.added \cap classified.deleted = {}
        /\ classified.added \cap classified.old_format = {}
        /\ classified.deleted \cap classified.old_format = {}

\* The branch is master or a release branch.
on_trunk_or_release ==
    \/ branch_name = master
    \/ (Len(branch_name) >= 3 /\ SubSeq(branch_name, 1, 3) \in {<<"1", "9", ".">>,
                                                                 <<"2", "0", ".">>})

\* C10: is_valid_structure with a branch name: on master or a release branch it runs
\* validate_all_files and never validate_committed_files; on any other branch it
\* runs validate_committed_files.
C10_branch_decides ==
    (hist.call = IVS /\ branch_name # <<>>) =>
        IF on_trunk_or_release
        THEN ~called(VCF) /\ (ended(IVS) => called(VALL))
        ELSE ended(IVS) => called(VCF)

\* A run on a release branch is over.
C10_witness ==
    /\ returned_from(IVS)
    /\ branch_name = <<"2", "0", ".", "0">>
    /\ called(VALL)


\* The running top-level call has returned from fn.
has_returned(fn) == \E i \in DOMAIN hist.trace : hist.trace[i] = Returned(fn)

\* C11: on master or a release branch is_valid_structure starts the no_error
\* previous-version pass only after validate_all_files has returned.
C11_sweep_before_previous_version ==
    (hist.call = IVS /\ branch_name # <<>> /\ on_trunk_or_release /\ called(VAPV))
        => has_returned(VALL)


\* C12: validate_against_previous_version without no_error, no modified file of
\* the diff failing, leaves the verdict as it was at the call, true or false,
\* whatever prev_ver is and whether the diff is empty or not, and returns no value.
C12_no_failure_keeps_verdict ==
    /\ (at(VAPV, "return") /\ ~pv.no_error /\ ~hist.loop.failed)
          => _is_valid = pv.entry
    /\ (returned_from(VAPV) /\ ~hist.no_error /\ ~hist.loop.failed)
          => (_is_valid = hist.pre /\ ret = NoLocals)

\* A call without no_error that began with a false verdict is about to return, the
\* files of its diff validated and none failed.
C12_witness ==
    /\ hist.call = VAPV /\ at(VAPV, "return")
    /\ ~pv.no_error /\ pv.entry = FALSE
    /\ "modified_files" \in DOMAIN pv /\ pv.modified_files # {}
    /\ hist.loop.fn = VMF /\ ~hist.loop.failed


\* C13: validate_modified_files and validate_added_files, given only files that are
\* no validated content entity, leave a true verdict true, whatever the checks
\* would say of the content of the files.
C13_non_content_is_ignored ==
    ((ended(VMF) \/ ended(VAF)) /\ hist.pre
        /\ \A entry \in hist.args : ~checked_type(new_path_of(entry)))
        => _is_valid = TRUE


\* C14: an error raised while a file is read or validated fails that file alone:
\* the verdict is false from then on, the call is not left by the exception, and
\* the loop goes on to evaluate every file of its set.
C14_error_fails_the_file_only ==
    (\E i \in DOMAIN hist.trace : hist.trace[i].ev = "raise") =>
        /\ _is_valid = FALSE
        /\ hist.status # "raised"
        /\ hist.status = "returned" => hist.loop.all


\* C15: every is_valid_structure call starts from a true verdict: a call on an
\* orchestrator whose last call left the verdict false does not inherit it.
C15_call_starts_from_true ==
    (hist.call = IVS /\ at(IVS, "start")) => _is_valid = TRUE


\* C16: get_modified_and_added_files returns in CI mode the sets of the branch diff
\* A; outside CI mode, with WT the working-tree diff and D the diff from the tag:
\* old_format = A.old_format + WT.old_format, modified = (A.modified + (D.modified
\* and WT.modified)) - WT.deleted, added = (A.added + (D.added and WT.added))
\* - WT.modified - WT.deleted.
C16_reconciled_sets ==
    returned_from(GMAF) =>
        LET A == gm.A
            WT == gm.nc
            D == gm.from_tag
            all == A.modified \cup A.added \cup A.old_format \cup WT.modified
                     \cup WT.added \cup WT.old_format \cup D.modified \cup D.added
                     \cup ret.modified_files \cup ret.added_files
                     \cup ret.old_format_files
        IN  IF is_circle
            THEN /\ ret.modified_files = A.modified
                 /\ ret.added_files = A.added
                 /\ ret.old_format_files = A.old_format
            ELSE \A x \in all :
                    /\ x \in ret.old_format_files
                          <=> (x \in A.old_format \/ x \in WT.old_format)
                    /\ x \in ret.modified_files
                          <=> /\ x \in A.modified \/ (x \in D.modified /\ x \in WT.modified)
                              /\ x \notin WT.deleted
                    /\ x \in ret.added_files
                          <=> /\ x \in A.added \/ (x \in D.added /\ x \in WT.added)
                              /\ x \notin WT.modified
                              /\ x \notin WT.deleted

\* Outside CI mode a call has returned a modified path that is not in A but in D and
\* WT, without a path of A that WT lists as deleted.
C16_witness ==
    /\ returned_from(GMAF) /\ ~is_circle
    /\ \E x \in gm.from_tag.modified \cap gm.nc.modified :
          x \notin gm.A.modified /\ x \in ret.modified_files
    /\ \E x \in gm.A.modified \cap gm.nc.deleted : x \notin ret.modified_files


\* C17: the first diff of get_modified_and_added_files compares with two dots when
\* the tag is the trunk branch ('master', 'origin/master') and with three dots for
\* every other tag.
C17_two_dots_against_trunk ==
    returned_from(GMAF) =>
        gm.command.dots = IF gm.tag \in {master, origin_master}
                          THEN <<".", ".">>
                          ELSE <<".", ".", ".">>

\* C17, amended: the first diff compares the tag with refs/heads/<branch>, with
\* three dots (from the merge base) when the tag contains 'master' and with two
\* dots for every other tag.
C17_three_dots_against_trunk ==
    returned_from(GMAF) =>
        /\ gm.command.base = gm.tag
        /\ gm.command.head = branch_name
        /\ gm.command.dots =
              IF \E i \in 1..Len(gm.tag) :
                    i + 5 <= Len(gm.tag)
                    /\ SubSeq(gm.tag, i, i + 5) = <<"m", "a", "s", "t", "e", "r">>
              THEN <<".", ".", ".">>
              ELSE <<".", ".">>

\* A call with the default tag 'origin/master' has returned.
C17_witness ==
    /\ returned_from(GMAF)
    /\ gm.tag = origin_master
    /\ gm.command.dots = <<".", ".", ".">>


\* C18: validate_modified_files runs the validator of the content type of every
\* modified content entity in every configuration, also with validate_id_set: a
\* file its type's validator rejects makes the verdict false.
C18_type_validator_always_runs ==
    (ended(VMF) /\ hist.loop.type_failed) => _is_valid = FALSE


\* The paths of the entries of a set: of a rename pair, the new path.
paths_of(entries) == {new_path_of(entry) : entry \in entries}

\* The path a line of a diff is about: the new path of a rename.
path_of_line(file_data) == file_data[Len(file_data)]

\* A non-test file matching the code-file pattern.
is_code_file(p) == CODE_FILES_REGEX(p) /\ ~endswith_test_py(p)

\* The diff without its i-th line.
without_line(diff, i) == SubSeq(diff, 1, i - 1) \o SubSeq(diff, i + 1, Len(diff))

\* No set holds a path ending in .js or .py.
no_code_path(sets) ==
    \A p \in paths_of(sets.modified) \cup sets.added \cup sets.deleted
               \cup sets.old_format : p.ext \notin {"js", "py"}

\* C19: get_modified_files places no path ending in .js or .py in any of its four
\* sets, and records every non-test code file of the diff under the .yml path next
\* to it.
C19_code_file_as_its_yml ==
    returned_from(GMF) =>
        /\ no_code_path(classified)
        /\ \A i \in DOMAIN files_string :
              LET file_data == files_string[i] IN
              (file_data # <<>> /\ is_code_file(path_of_line(file_data))) =>
                  splitext_yml(path_of_line(file_data))
                      \in paths_of(classified.modified) \cup classified.added
                            \cup classified.deleted \cup classified.old_format

\* C19, amended: get_modified_files places no path ending in .js or .py in any of
\* its four sets, as an entry or as the new path of a rename pair.  A non-test code
\* file that is modified, added or renamed is recorded under the .yml path next to
\* it (a modified or added one only if its path does not start with '.'); a deleted
\* code file and every other .js or .py path is skipped, the sets being those of
\* the diff without that line.
C19_code_file_as_its_yml_unless_deleted ==
    returned_from(GMF) =>
        /\ no_code_path(classified)
        /\ \A i \in DOMAIN files_string :
              LET file_data == files_string[i]
                  p == path_of_line(file_data)
                  status == lower(file_data[1])
              IN  file_data # <<>> =>
                    /\ (/\ is_code_file(p)
                        /\ \/ startswith_r(status)
                           \/ (status \in {"m", "a"} /\ ~startswith_dot(p)))
                          => splitext_yml(p)
                               \in paths_of(classified.modified) \cup classified.added
                    /\ (/\ p.ext \in {"js", "py"}
                        /\ (~is_code_file(p) \/ status = "d"))
                          => classified = get_modified_files(fs, without_line(files_string, i))

\* A diff of a modified code file and a stray .py file has been classified.
C19_witness ==
    /\ returned_from(GMF)
    /\ files_string = << <<"M", IntPy>>, <<"M", StrayPy>>, <<>> >>
    /\ classified.modified = {IntYml}


\* A file of the legacy unified format whose type is python.
is_legacy_python(yml, p) == OLD_YML_FORMAT_FILE(p) /\ _is_py_script_or_integration(yml, p)

\* No other line of the diff is about the path of line i.
only_line_of(diff, i) ==
    \A j \in DOMAIN diff \ {i} :
        diff[j] = <<>> \/ path_of_line(diff[j]) # path_of_line(diff[i])

\* The path is in one of the modified, added and deleted sets.
in_other_set(sets, p) ==
    p \in paths_of(sets.modified) \cup sets.added \cup sets.deleted

\* C20: a python file of the legacy unified format goes to the old-format set and
\* to no other set whatever its git status, delete excepted; with status delete it
\* does not enter the old-format set.
C20_old_format_unless_deleted ==
    returned_from(GMF) =>
        \A i \in DOMAIN files_string :
            LET file_data == files_string[i]
                p == path_of_line(file_data)
            IN  (file_data # <<>> /\ is_legacy_python(fs, p)) =>
                  IF lower(file_data[1]) = "d"
                  THEN only_line_of(files_string, i) => p \notin classified.old_format
                  ELSE /\ p \in classified.old_format
                       /\ only_line_of(files_string, i) => ~in_other_set(classified, p)

\* C20, amended: a python file of the legacy unified format goes to the old-format
\* set and to no other set when its git status is modified, added or a rename; with
\* any other status, delete included, it does not enter the old-format set.
C20_old_format_when_modified_added_renamed ==
    returned_from(GMF) =>
        \A i \in DOMAIN files_string :
            LET file_data == files_string[i]
                p == path_of_line(file_data)
                status == lower(file_data[1])
            IN  (file_data # <<>> /\ is_legacy_python(fs, p)) =>
                  IF status \in {"m", "a"} \/ startswith_r(status)
                  THEN /\ p \in classified.old_format
                       /\ only_line_of(files_string, i) => ~in_other_set(classified, p)
                  ELSE only_line_of(files_string, i) => p \notin classified.old_format

\* A python integration of the legacy format has been renamed, another deleted.
C20_witness ==
    /\ returned_from(GMF)
    /\ files_string = << <<"D", OldScr>>, <<"R100", IntYml, OldInt>>, <<>> >>
    /\ is_legacy_python(fs, OldInt) /\ is_legacy_python(fs, OldScr)
    /\ classified.old_format = {OldInt}
    /\ classified.deleted = {OldScr}


\* C21: no path that starts with '.' is in the modified, added, deleted or
\* old-format set get_modified_files returns, whatever the status of its line and
\* whatever pattern it matches.
C21_dot_path_in_no_set ==
    returned_from(GMF) =>
        \A p \in paths_of(classified.modified) \cup classified.added
                   \cup classified.deleted \cup classified.old_format :
            ~startswith_dot(p)


\* s is the beginning of t.
is_prefix(s, t) == Len(s) <= Len(t) /\ SubSeq(t, 1, Len(s)) = s

\* The phases of a run of validate_committed_files over the changeset, in order.
vcf_phases ==
    << Called(GMAF), Returned(GMAF), Called(VMF), Returned(VMF),
       Called(VAF), Returned(VAF), Called(VNOF), Returned(VNOF), Returned(VCF) >>

\* The calls and returns that follow event i of the trace, up to the return of fn.
RECURSIVE events_until(_, _, _)
events_until(trace, i, fn) ==
    IF i >= Len(trace) \/ trace[i + 1].ev = "raise" THEN <<>>
    ELSE IF trace[i + 1] = Returned(fn) THEN <<trace[i + 1]>>
    ELSE <<trace[i + 1]>> \o events_until(trace, i + 1, fn)

orders(files) ==
    { s \in [1..Cardinality(files) -> files] :
        \A i, j \in DOMAIN s : i # j => s[i] # s[j] }

\* What the files of a set may answer: to validate_no_old_format the document of
\* each file, to the other loops the checks each file fails.
outcomes(fn, files) ==
    IF fn = VNOF
    THEN { o \in [files -> IntegrationDocs \cup ScriptDocs] :
             \A f \in files : o[f] \in DocsOf(f) }
    ELSE [files -> Answers]

\* Lines 193-351: the verdict a loop leaves when it visits the files in `order`
\* and each file answers as `outcome` says.  An added test playbook without a
\* conf_json_validator ends the loop after its structure and id-set checks.
RECURSIVE loop_verdict(_, _, _, _)
loop_verdict(fn, verdict, order, outcome) ==
    IF fn = VNOF
    THEN verdict_after(verdict,
                       \E i \in DOMAIN order : no_toversion(outcome[order[i]]))
    ELSE IF order = <<>> THEN verdict
    ELSE LET entry == Head(order)
             file_path == new_path_of(entry)
             bad == outcome[entry]
         IN  IF fn = VMF
             THEN loop_verdict(fn,
                      verdict_after(verdict, /\ ~skipped_modified(file_path)
                                             /\ modified_file_fails(file_path, bad)),
                      Tail(order), outcome)
             ELSE IF added_file_raises(file_path)
             THEN verdict_after(verdict,
                      \/ "structure" \in bad
                      \/ (validate_id_set /\ ("id_set" \in bad \/ "used_id" \in bad)))
             ELSE loop_verdict(fn, verdict_after(verdict, added_file_fails(file_path, bad)),
                               Tail(order), outcome)

\* C23: the verdict validate_modified_files, validate_added_files and
\* validate_no_old_format leave is the same for every order in which the files of
\* the set are visited, the verdict before the call and the answers of the files
\* being the same.
C23_order_does_not_matter ==
    (hist.call \in {VMF, VAF, VNOF} /\ hist.status \in {"returned", "raised"}) =>
        \A outcome \in outcomes(hist.call, hist.args) :
            \A s, t \in orders(hist.args) :
                loop_verdict(hist.call, hist.pre, s, outcome)
                    = loop_verdict(hist.call, hist.pre, t, outcome)

====
